---- MODULE Spec2Model ----
(***************************************************************************)
(* Model of the geometric-distortion engine of sdss/dewarp:                *)
(*   python/dewarp/utils/opticsmath.py  class warpcoefs                    *)
(*   python/dewarp/utils/imgutils.py    centroids_hullbijected             *)
(*                                                                         *)
(* Numbers.  The program computes in floating point; the model computes    *)
(* the same expressions exactly, over the rationals.  A rational is a pair *)
(* <<num, den>> in lowest terms with den > 0.  The only irrational the     *)
(* program produces is the factor sqrt(1+2/(n-1)) of get_orthophi; a       *)
(* polynomial that carries it is kept as a pair of grids [q, s] standing   *)
(* for q + sqrt(1+2/(n-1)) * s.                                            *)
(***************************************************************************)
EXTENDS Integers, Sequences, FiniteSets, TLC

(***************************************************************************)
(* Evaluation order.  Python evaluates an argument once, before the call.  *)
(* An operator is handed its arguments as expressions, so an argument that *)
(* is used more than once is first bound to its value:                     *)
(* The({e : x \in {a}}) is e with x standing for the value of a.           *)
(***************************************************************************)
The(S) == CHOOSE v \in S : TRUE

(***************************************************************************)
(* Exact rational arithmetic                                               *)
(***************************************************************************)
Abs(x) == IF x < 0 THEN -x ELSE x

Max(a, b) == The({IF x >= y THEN x ELSE y : x \in {a}, y \in {b}})

Min(a, b) == The({IF x <= y THEN x ELSE y : x \in {a}, y \in {b}})

RECURSIVE GCD(_, _)
GCD(a, b) == The({IF y = 0 THEN x ELSE GCD(y, x % y) : x \in {a}, y \in {b}})

\* n / d in lowest terms, given g = gcd(|n|, |d|)
Lowest(n, d, g) == IF d < 0 THEN <<-(n \div g), -(d \div g)>> ELSE <<n \div g, d \div g>>

Rat(n, d) ==
  The({The({Lowest(x, y, g) : g \in {GCD(Abs(x), Abs(y))}}) : x \in {n}, y \in {d}})

RInt(n) == <<n, 1>>

RZero == <<0, 1>>

ROne == <<1, 1>>

RNeg(a) == The({<<-x[1], x[2]>> : x \in {a}})

RAdd(a, b) ==
  The({The({Rat(x[1] * (y[2] \div g) + y[1] * (x[2] \div g), (x[2] \div g) * y[2]) :
              g \in {GCD(x[2], y[2])}}) : x \in {a}, y \in {b}})

RSub(a, b) == RAdd(a, RNeg(b))

RMul(a, b) ==
  The({IF x[1] = 0 \/ y[1] = 0 THEN RZero
       ELSE The({<<(x[1] \div g1) * (y[1] \div g2), (x[2] \div g2) * (y[2] \div g1)>> :
                   g1 \in {GCD(Abs(x[1]), y[2])}, g2 \in {GCD(Abs(y[1]), x[2])}}) :
       x \in {a}, y \in {b}})

RInv(a) == The({IF x[1] < 0 THEN <<-x[2], -x[1]>> ELSE <<x[2], x[1]>> : x \in {a}})

RDiv(a, b) == RMul(a, RInv(b))

RAbs(a) == The({<<Abs(x[1]), x[2]>> : x \in {a}})

RLe(a, b) == RSub(a, b)[1] <= 0

RLt(a, b) == RSub(a, b)[1] < 0

RMax(a, b) == The({IF RLe(y, x) THEN x ELSE y : x \in {a}, y \in {b}})

RECURSIVE RPow(_, _)
RPow(a, k) == IF k = 0 THEN ROne ELSE RMul(a, RPow(a, k - 1))

RECURSIVE RSum(_)
RSum(s) ==
  The({IF Len(v) = 0 THEN RZero ELSE RAdd(Head(v), RSum(Tail(v))) : v \in {s \o <<>>}})

RECURSIVE RMaxSeq(_)
RMaxSeq(s) ==
  The({IF Len(v) = 1 THEN v[1] ELSE RMax(v[1], RMaxSeq(Tail(v))) : v \in {s \o <<>>}})

(***************************************************************************)
(* Coefficient grids (numpy 2-d arrays): a sequence of rows; entry         *)
(* g[i+1][j+1] is the coefficient of x^i * y^j.  A grid with no rows keeps *)
(* its column count in no row, so shapes are carried where they matter.    *)
(***************************************************************************)
Rows(g) == Len(g)

Cols(g) == The({IF Len(v) = 0 THEN 0 ELSE Len(v[1]) : v \in {g}})

Shape(g) == The({<<Rows(v), Cols(v)>> : v \in {g}})

Zeros(r, c) == [i \in 1..r |-> [j \in 1..c |-> RZero]]

IntGrid(g) == [i \in 1..Len(g) |-> [j \in 1..Len(g[i]) |-> RInt(g[i][j])]]

IsZeroGrid(g) == \A i \in 1..Rows(g) : \A j \in 1..Cols(g) : g[i][j] = RZero

\* out[r0 : r0+rows(blk), c0 : c0+cols(blk)] += coef * blk   (0-based offsets)
AddAt(out, blk, r0, c0, coef) ==
  The({[i \in 1..Rows(o) |-> [j \in 1..Cols(o) |->
          IF /\ i - r0 \in 1..Rows(b)
             /\ j - c0 \in 1..Cols(b)
          THEN RAdd(o[i][j], RMul(k, b[i - r0][j - c0]))
          ELSE o[i][j]]] : o \in {out}, b \in {blk}, k \in {coef}})

GridNeg(g) == The({[i \in 1..Rows(v) |-> [j \in 1..Cols(v) |-> RNeg(v[i][j])]] : v \in {g}})

\* variant: the grid read column-major, c[i][j] * x^j * y^i
polyval2d_transposed(x, y, c) ==
  The({RSum([k \in 1..(Rows(g) * Cols(g)) |->
               LET i == (k - 1) \div Cols(g)
                   j == (k - 1) % Cols(g)
               IN  RMul(g[i + 1][j + 1], RMul(RPow(u, j), RPow(v, i)))]) :
       u \in {x}, v \in {y}, g \in {c}})

\* numpy.polynomial.polynomial.polyval2d(x, y, c) at one point
polyval2d(x, y, c) ==
  The({RSum([k \in 1..(Rows(g) * Cols(g)) |->
               LET i == (k - 1) \div Cols(g)
                   j == (k - 1) % Cols(g)
               IN  RMul(g[i + 1][j + 1], RMul(RPow(u, i), RPow(v, j)))]) :
       u \in {x}, v \in {y}, g \in {c}})

\* variant: the highest row or column is dropped, the entries are not scaled
polypder2d_unscaled(poly, wrtX_otherwise_wrtY) ==
  The({IF wrtX_otherwise_wrtY
       THEN [i \in 1..(Rows(g) - 1) |-> [j \in 1..Cols(g) |-> g[i + 1][j]]]
       ELSE [i \in 1..Rows(g) |-> [j \in 1..(Cols(g) - 1) |-> g[i][j + 1]]] :
       g \in {poly}})

\* variant: the y derivative scales by the row index as well
polypder2d_rowscaled(poly, wrtX_otherwise_wrtY) ==
  The({IF wrtX_otherwise_wrtY
       THEN [i \in 1..(Rows(g) - 1) |-> [j \in 1..Cols(g) |->
               RMul(RInt(i), g[i + 1][j])]]
       ELSE [i \in 1..Rows(g) |-> [j \in 1..(Cols(g) - 1) |->
               RMul(RInt(i + j - 1), g[i][j + 1])]] : g \in {poly}})

\* polypder2d(poly, wrtX_otherwise_wrtY), lines 300-303
polypder2d(poly, wrtX_otherwise_wrtY) ==
  The({IF wrtX_otherwise_wrtY
       THEN [i \in 1..(Rows(g) - 1) |-> [j \in 1..Cols(g) |->
               RMul(RInt(i), g[i + 1][j])]]
       ELSE [i \in 1..Rows(g) |-> [j \in 1..(Cols(g) - 1) |->
               RMul(RInt(j), g[i][j + 1])]] : g \in {poly}})

(***************************************************************************)
(* The basis cache: class attribute warpcoefs.zernike_xypolycoefs, a dict  *)
(* from (n, m) to a grid.  It is modelled as a function on its key set.    *)
(***************************************************************************)
zernike_base ==
  (<<0, 0>>  :> IntGrid(<< <<1>> >>)) @@
  (<<1, -1>> :> IntGrid(<< <<0, 1>>, <<0, 0>> >>)) @@
  (<<1, 1>>  :> IntGrid(<< <<0, 0>>, <<1, 0>> >>)) @@
  (<<2, 2>>  :> IntGrid(<< <<0, 0, -1>>, <<0, 0, 0>>, <<1, 0, 0>> >>)) @@
  (<<2, -2>> :> IntGrid(<< <<0, 0, 0>>, <<0, 2, 0>>, <<0, 0, 0>> >>)) @@
  (<<2, 0>>  :> IntGrid(<< <<-1, 0, 2>>, <<0, 0, 0>>, <<2, 0, 0>> >>))

tx_default == IntGrid(<< <<0, 0>>, <<1, 0>> >>)

ty_default == IntGrid(<< <<0, 1>>, <<0, 0>> >>)

Sgn(m) == IF m > 0 THEN 1 ELSE -1

\* variant: the grid computed by the general recursion is returned but not
\* written to the cache
zernike_general_unstored(n, m, lastlast, last) ==
  IF lastlast.error # "none"
  THEN [out |-> <<>>, cache |-> lastlast.cache, error |-> lastlast.error]
  ELSE IF last.error # "none"
  THEN [out |-> <<>>, cache |-> last.cache, error |-> last.error]
  ELSE IF (n + m) * (n - m) * (n - 2) = 0
  THEN [out |-> <<>>, cache |-> last.cache, error |-> "ZeroDivisionError"]
  ELSE
  LET den  == (n + m) * (n - m) * (n - 2)
      k1   == Rat(4 * n * (n - 1) * (n - 2), den)
      k2   == Rat(2 * (n - 1) * (m * m + n * (n - 2)), den)
      k3   == Rat(n * (n + m - 2) * (n - m - 2), den)
      z    == Zeros(Max(Rows(lastlast.out), Rows(last.out) + 2),
                    Max(Cols(lastlast.out), Cols(last.out) + 2))
      o1   == AddAt(z, last.out, 2, 0, k1)
      o2   == AddAt(o1, last.out, 0, 2, k1)
      o3   == AddAt(o2, last.out, 0, 0, RNeg(k2))
  IN  The({[out |-> out, cache |-> last.cache, error |-> "none"] :
           out \in {AddAt(o3, lastlast.out, 0, 0, RNeg(k3))}})

\* lines 60-67: the general recursion, from lastlast = Z(n-4, m) and
\* last = Z(n-2, m), each a record [out, cache, error] of the recursive
\* call.  An exception of a recursive call goes through; the coefficients
\* divide by n+m, n-m and n-2 in turn, and a zero divisor raises
\* ZeroDivisionError before anything is stored.
zernike_general(n, m, lastlast, last) ==
  IF lastlast.error # "none"
  THEN [out |-> <<>>, cache |-> lastlast.cache, error |-> lastlast.error]
  ELSE IF last.error # "none"
  THEN [out |-> <<>>, cache |-> last.cache, error |-> last.error]
  ELSE IF (n + m) * (n - m) * (n - 2) = 0
  THEN [out |-> <<>>, cache |-> last.cache, error |-> "ZeroDivisionError"]
  ELSE
  LET den  == (n + m) * (n - m) * (n - 2)
      k1   == Rat(4 * n * (n - 1) * (n - 2), den)
      k2   == Rat(2 * (n - 1) * (m * m + n * (n - 2)), den)
      k3   == Rat(n * (n + m - 2) * (n - m - 2), den)
      z    == Zeros(Max(Rows(lastlast.out), Rows(last.out) + 2),
                    Max(Cols(lastlast.out), Cols(last.out) + 2))
      o1   == AddAt(z, last.out, 2, 0, k1)
      o2   == AddAt(o1, last.out, 0, 2, k1)
      o3   == AddAt(o2, last.out, 0, 0, RNeg(k2))
  IN  The({[out |-> out, cache |-> (<<n, m>> :> out) @@ last.cache, error |-> "none"] :
           out \in {AddAt(o3, lastlast.out, 0, 0, RNeg(k3))}})

\* variant: the grid is filed under the key of the call before
zernike_edge_misfiled(n, m, lastlast, last) ==
  LET z    == Zeros(Max(Rows(lastlast.out) + 2, Rows(last.out) + 1),
                    Max(Cols(lastlast.out) + 2, Cols(last.out)))
      o1   == AddAt(z, lastlast.out, 0, 2, RInt(-1))
      o2   == AddAt(o1, lastlast.out, 2, 0, RInt(-1))
  IN  The({[out |-> out, cache |-> (<<n - 1, m - Sgn(m)>> :> out) @@ last.cache,
            error |-> "none"] :
           out \in {AddAt(o2, last.out, 1, 0, RInt(2))}})

\* lines 69-75: the recursion along the edge |m| = n, from
\* lastlast = Z(n-2, m -+ 2) and last = Z(n-1, m -+ 1)
zernike_edge(n, m, lastlast, last) ==
  LET z    == Zeros(Max(Rows(lastlast.out) + 2, Rows(last.out) + 1),
                    Max(Cols(lastlast.out) + 2, Cols(last.out)))
      o1   == AddAt(z, lastlast.out, 0, 2, RInt(-1))
      o2   == AddAt(o1, lastlast.out, 2, 0, RInt(-1))
  IN  The({[out |-> out, cache |-> (<<n, m>> :> out) @@ last.cache, error |-> "none"] :
           out \in {AddAt(o2, last.out, 1, 0, RInt(2))}})

\* get_zernike_xypolycoefs(n, m) run against cache c, for any integers
\* n, m; yields the returned grid, the cache after the call, and the
\* exception raised if the call ended in one.
RECURSIVE get_zernike(_, _, _)
get_zernike(c, n, m) ==
  IF n < Abs(m) THEN [out |-> Zeros(1, 1), cache |-> c, error |-> "none"]
  ELSE IF <<n, m>> \in DOMAIN c THEN [out |-> c[<<n, m>>], cache |-> c, error |-> "none"]
  ELSE IF n > Abs(m) THEN
    The({The({zernike_general(n, m, lastlast, last) :
                last \in {get_zernike(lastlast.cache, n - 2, m)}}) :
         lastlast \in {get_zernike(c, n - 4, m)}})
  ELSE
    The({The({zernike_edge(n, m, lastlast, last) :
                last \in {get_zernike(lastlast.cache, n - 1, m - Sgn(m))}}) :
         lastlast \in {get_zernike(c, n - 2, m - 2 * Sgn(m))}})

\* get_orthophi_xypolycoefs(n, m): the potential q + sqrt(1+2/(n-1)) * s
get_orthophi(c, n, m) ==
  IF n = Abs(m)
  THEN The({[q |-> z.out, s |-> Zeros(Rows(z.out), Cols(z.out)), cache |-> z.cache] :
            z \in {get_zernike(c, n, m)}})
  ELSE The({The({[q |-> z.out,
                  s |-> AddAt(Zeros(Rows(z.out), Cols(z.out)), last.out, 0, 0, RInt(-1)),
                  cache |-> last.cache] :
                 last \in {get_zernike(z.cache, n - 2, m)}}) :
            z \in {get_zernike(c, n, m)}})

\* A polynomial with its sqrt part; the sqrt part of every element of
\* degree 1 and 2 is zero.
PolyDer(phi, wrtX) ==
  The({[q |-> polypder2d(p.q, wrtX), s |-> polypder2d(p.s, wrtX)] : p \in {phi}})

PolyNeg(p) == The({[q |-> GridNeg(v.q), s |-> GridNeg(v.s)] : v \in {p}})

PolyShape(p) == Shape(p.q)

\* variant: the curl element of m = 0 without the sign change
basis_m0_unsigned(phi) ==
  The({<< <<pderx, pdery>>, <<pdery, pderx>> >> :
       pderx \in {PolyDer(phi, TRUE)}, pdery \in {PolyDer(phi, FALSE)}})

\* lines 144-149: the two elements of m = 0
basis_m0(phi) ==
  The({<< <<pderx, pdery>>, <<pdery, PolyNeg(pderx)>> >> :
       pderx \in {PolyDer(phi, TRUE)}, pdery \in {PolyDer(phi, FALSE)}})

\* variant: curl elements are emitted for m = degree as well
basis_m_always_curl(phicos, phisin, degree, m) ==
  The({<< <<cospderx, cospdery>>, <<sinpderx, sinpdery>>,
          <<cospdery, PolyNeg(cospderx)>>, <<sinpdery, PolyNeg(sinpderx)>> >> :
       cospderx \in {PolyDer(phicos, TRUE)}, cospdery \in {PolyDer(phicos, FALSE)},
       sinpderx \in {PolyDer(phisin, TRUE)}, sinpdery \in {PolyDer(phisin, FALSE)}})

\* lines 150-160: the two or four elements of m > 0
basis_m(phicos, phisin, degree, m) ==
  The({<< <<cospderx, cospdery>>, <<sinpderx, sinpdery>> >> \o
       (IF m # degree
        THEN << <<cospdery, PolyNeg(cospderx)>>, <<sinpdery, PolyNeg(sinpderx)>> >>
        ELSE <<>>) :
       cospderx \in {PolyDer(phicos, TRUE)}, cospdery \in {PolyDer(phicos, FALSE)},
       sinpderx \in {PolyDer(phisin, TRUE)}, sinpdery \in {PolyDer(phisin, FALSE)}})

\* the body of the loop "for m in range(degree, -1, -2)" of extendbasis,
\* from index m on; elements are pairs <<dx polynomial, dy polynomial>>
RECURSIVE extendbasis_loop(_, _, _)
extendbasis_loop(c, degree, m) ==
  IF m < 0 THEN [out |-> <<>>, cache |-> c]
  ELSE IF m = 0 THEN
    The({[out |-> basis_m0(phi), cache |-> phi.cache] :
         phi \in {get_orthophi(c, degree, 0)}})
  ELSE
    The({The({The({[out |-> basis_m(phicos, phisin, degree, m) \o rest.out,
                    cache |-> rest.cache] :
                   rest \in {extendbasis_loop(phisin.cache, degree, m - 2)}}) :
              phisin \in {get_orthophi(phicos.cache, degree, -m)}}) :
         phicos \in {get_orthophi(c, degree, m)}})

\* extendbasis(degree), degree >= 0
extendbasis(c, degree) ==
  IF degree = 0
  THEN [out |-> << << [q |-> Zeros(1, 1), s |-> Zeros(1, 1)],
                      [q |-> Zeros(1, 1), s |-> Zeros(1, 1)] >> >>,
        cache |-> c]
  ELSE extendbasis_loop(c, degree, degree)

(***************************************************************************)
(* computetransform: the numerics of one loop iteration                    *)
(***************************************************************************)
\* Degrees the model names; from DegreeCap on the degree counter saturates
DegreeCap == 3

\* An entry of the list basiselements: the tuple c = (x polynomial,
\* y polynomial) extendbasis returned, with id = <<degree, place in that
\* call's result>> standing for the identity of the tuple object.
tagged(out, degree) ==
  The({[i \in 1..Len(v) |-> [id |-> <<degree, i>>, c |-> v[i]]] \o <<>> : v \in {out}})

VecSub(a, b) == The({[i \in 1..Len(x) |-> RSub(x[i], y[i])] : x \in {a}, y \in {b}})

VecAdd(a, b) == The({[i \in 1..Len(x) |-> RAdd(x[i], y[i])] : x \in {a}, y \in {b}})

Dot(a, b) == The({RSum([i \in 1..Len(x) |-> RMul(x[i], y[i])]) : x \in {a}, y \in {b}})

MatVec(M, v) == The({[i \in 1..Len(A) |-> Dot(A[i], x)] : A \in {M}, x \in {v}})

\* eval_matrix after an iteration: one row per coordinate, one column
\* per element of basiselements
eval_matrix(fromxys, basiselements) ==
  The({[r \in 1..Len(xys) |-> [k \in 1..Len(els) |->
          LET p == (r + 1) \div 2
              x == xys[2 * p - 1]
              y == xys[2 * p]
          IN  IF r % 2 = 1 THEN polyval2d(x, y, els[k].c[1].q)
                           ELSE polyval2d(x, y, els[k].c[2].q)] \o <<>>] \o <<>> :
       xys \in {fromxys}, els \in {basiselements}})

\* the full product of the transposed eval_matrix with eval_matrix (the
\* comment of line 206): entry (i, j) is the sum over rows of column i
\* times column j
square_matrix(A, n) ==
  The({[i \in 1..n |-> [j \in 1..n |->
          RSum([r \in 1..Len(E) |-> RMul(E[r][i], E[r][j])])] \o <<>>] \o <<>> :
       E \in {A}})

\* the first row from c on with a non-zero entry in column c, 0 if none
pivot_row(M, c) ==
  LET cand == {r \in c..Len(M) : M[r][c] # RZero}
  IN  IF cand = {} THEN 0 ELSE CHOOSE r \in cand : \A q \in cand : r <= q

\* rows c and p swapped, row c scaled to a unit pivot, column c cleared
eliminate(M, c, p) ==
  The({The({[r \in 1..Len(sw) |->
               IF r = c THEN prow
               ELSE [j \in 1..Len(prow) |->
                       RSub(sw[r][j], RMul(sw[r][c], prow[j]))] \o <<>>] \o <<>> :
            prow \in {[j \in 1..Len(sw[c]) |-> RDiv(sw[c][j], sw[c][c])] \o <<>>}}) :
       sw \in {[r \in 1..Len(M) |-> IF r = c THEN M[p]
                                    ELSE IF r = p THEN M[c] ELSE M[r]]}})

\* Gauss-Jordan elimination on the n x 2n matrix [G | I]; <<>> when a
\* column has no pivot, the case in which numpy raises LinAlgError
RECURSIVE gauss_jordan(_, _)
gauss_jordan(M, c) ==
  The({IF c > Len(A) THEN A
       ELSE The({IF p = 0 THEN <<>> ELSE gauss_jordan(eliminate(A, c, p), c + 1) :
                 p \in {pivot_row(A, c)}}) :
       A \in {M}})

\* numpy.linalg.inv: the inverse, or <<>> for LinAlgError (singular matrix)
linalg_inv(G) ==
  The({The({IF red = <<>> THEN <<>>
            ELSE [i \in 1..Len(A) |-> [j \in 1..Len(A) |-> red[i][Len(A) + j]] \o <<>>] \o <<>> :
            red \in {gauss_jordan([i \in 1..Len(A) |-> [j \in 1..(2 * Len(A)) |->
                                     IF j <= Len(A) THEN A[i][j]
                                     ELSE IF j - Len(A) = i THEN ROne ELSE RZero] \o <<>>] \o <<>>,
                                  1)}}) :
       A \in {G}})

\* lines 217-218: the error measures of the corrected points
measures(newweights, dewarpedxys, toxys) ==
  The({[singular |-> FALSE, newweights |-> newweights, dewarpedxys |-> dewarpedxys,
        newerr |-> RMaxSeq(abserr),
        newavgerr |-> RDiv(RSum(abserr), RInt(Len(abserr)))] :
       abserr \in {[r \in 1..Len(dewarpedxys) |->
                      RAbs(RSub(dewarpedxys[r], toxys[r]))] \o <<>>}})

\* lines 215-218 for a design matrix A with the inverse of its Gram matrix
solve_with(fromxys, toxys, A, inv_matrix) ==
  The({The({measures(newweights, dewarpedxys, toxys) :
            dewarpedxys \in {VecAdd(fromxys, MatVec(A, newweights)) \o <<>>}}) :
       newweights \in
         {MatVec(inv_matrix,
                 MatVec([k \in 1..Len(A[1]) |-> [r \in 1..Len(A) |-> A[r][k]] \o <<>>],
                        VecSub(toxys, fromxys))) \o <<>>}})

\* variant: the entry below the diagonal is not written, it keeps the
\* value numpy.empty left there (zero here)
grow_square_matrix_upper(square, E, k) ==
  The({[i \in 1..(Len(old) + k) |-> [j \in 1..(Len(old) + k) |->
          IF i <= Len(old) /\ j <= Len(old) THEN old[i][j]
          ELSE IF j < i THEN RZero
          ELSE RSum([r \in 1..Len(A) |-> RMul(A[r][i], A[r][j])])] \o <<>>] \o <<>> :
       old \in {square}, A \in {E}})

\* lines 199, 204-210: square_matrix grown by k rows and columns.  The
\* block of the n = len(square_matrix) old rows and columns is kept; the
\* loops visit (i, j) with j >= max(n, i), compute the entry from columns
\* i and j of eval_matrix and write it to (j, i) as well.
grow_square_matrix(square, E, k) ==
  The({[i \in 1..(Len(old) + k) |-> [j \in 1..(Len(old) + k) |->
          IF i <= Len(old) /\ j <= Len(old) THEN old[i][j]
          ELSE RSum([r \in 1..Len(A) |->
                       RMul(A[r][Min(i, j)], A[r][Max(i, j)])])] \o <<>>] \o <<>> :
       old \in {square}, A \in {E}})

\* lines 199-218 for one iteration: eval_matrix for the extended list,
\* square_matrix grown from the one of the iteration before, the solve and
\* the error measures
solve_degree(fromxys, toxys, basiselements, square) ==
  The({The({The({IF inv_matrix = <<>>
                 THEN [singular |-> TRUE, eval_matrix |-> A, square_matrix |-> G]
                 ELSE The({[singular |-> FALSE, newweights |-> m.newweights,
                            dewarpedxys |-> m.dewarpedxys, newerr |-> m.newerr,
                            newavgerr |-> m.newavgerr,
                            eval_matrix |-> A, square_matrix |-> G] :
                           m \in {solve_with(fromxys, toxys, A, inv_matrix)}}) :
                 inv_matrix \in {linalg_inv(G)}}) :
            G \in {grow_square_matrix(square, A, Len(basiselements) - Len(square))}}) :
       A \in {eval_matrix(fromxys, basiselements)}})

(***************************************************************************)
(* basiselements.remove(a), lines 222-226.  list.remove compares each item *)
(* with a: the same object matches; otherwise the two tuples are compared  *)
(* item by item with ndarray ==, whose truth value is an error for more    *)
(* than one element.  For shapes that do not broadcast, numpy before 1.25  *)
(* answers False (with a warning) and numpy from 1.25 on raises; the       *)
(* outcome is a choice between the two.                                    *)
(***************************************************************************)
NumpyBuilds == {"legacy", "strict"}

Broadcastable(s1, s2) ==
  /\ (s1[1] = s2[1] \/ s1[1] = 1 \/ s2[1] = 1)
  /\ (s1[2] = s2[2] \/ s1[2] = 1 \/ s2[2] = 1)

BroadcastSize(s1, s2) ==
  (IF s1[1] = 1 THEN s2[1] ELSE s1[1]) * (IF s1[2] = 1 THEN s2[2] ELSE s1[2])

\* bool(a == b) for two distinct array objects: "True", "False", "ValueError"
array_eq_truth(a, b, build) ==
  The({IF ~Broadcastable(s1, s2)
       THEN IF build = "legacy" THEN "False" ELSE "ValueError"
       ELSE IF BroadcastSize(s1, s2) > 1 THEN "ValueError"
       ELSE IF BroadcastSize(s1, s2) = 0
            THEN IF build = "legacy" THEN "False" ELSE "ValueError"
       ELSE IF a = b THEN "True" ELSE "False" :
       s1 \in {PolyShape(a)}, s2 \in {PolyShape(b)}})

\* item == a for two entries of basiselements, held by identity
tuple_eq_truth(item, a, build) ==
  IF item.id = a.id THEN "True"
  ELSE The({IF r1 # "True" THEN r1
            ELSE array_eq_truth(item.c[2], a.c[2], build) :
            r1 \in {array_eq_truth(item.c[1], a.c[1], build)}})

\* try: basiselements.remove(a) / except ValueError: pass
RECURSIVE list_remove_from(_, _, _, _)
list_remove_from(list, a, build, i) ==
  IF i > Len(list) THEN list
  ELSE The({IF r = "True" THEN SubSeq(list, 1, i - 1) \o SubSeq(list, i + 1, Len(list))
            ELSE IF r = "ValueError" THEN list
            ELSE list_remove_from(list, a, build, i + 1) :
            r \in {tuple_eq_truth(list[i], a, build)}})

list_remove(list, a, build) ==
  The({list_remove_from(l, x, build, 1) : l \in {list}, x \in {a}})

\* for a in newbasiselements: try remove
RECURSIVE remove_all(_, _, _)
remove_all(list, new, build) ==
  The({IF Len(n) = 0 THEN l
       ELSE remove_all(list_remove(l, Head(n), build), Tail(n), build) :
       l \in {list}, n \in {new \o <<>>}})

(***************************************************************************)
(* The fold of lines 231-236 and applytransform                            *)
(***************************************************************************)
RECURSIVE MaxOver(_)
MaxOver(s) ==
  The({IF Len(v) = 1 THEN v[1] ELSE Max(v[1], MaxOver(Tail(v))) : v \in {s \o <<>>}})

\* zeros((max rows, max cols)) over component k of the basis elements
fold_zeros(basiselements, k) ==
  Zeros(MaxOver([i \in 1..Len(basiselements) |-> PolyShape(basiselements[i].c[k])[1]]),
        MaxOver([i \in 1..Len(basiselements) |-> PolyShape(basiselements[i].c[k])[2]]))

\* variant: the elements are summed without their weights
fold_poly_unweighted(basiselements, weights, k, upto) ==
  The({[i \in 1..Rows(z) |-> [j \in 1..Cols(z) |->
          RSum([e \in 1..upto |->
                  LET g == basiselements[e].c[k].q
                  IN  IF i <= Rows(g) /\ j <= Cols(g)
                      THEN g[i][j] ELSE RZero])]] :
       z \in {fold_zeros(basiselements, k)}})

\* the accumulation loop of lines 233-236 over i = 0 .. upto-1 for
\* component k: entry by entry, the sum of weights[i] * c[k] over the
\* elements whose grid has that entry
fold_poly(basiselements, weights, k, upto) ==
  The({[i \in 1..Rows(z) |-> [j \in 1..Cols(z) |->
          RSum([e \in 1..upto |->
                  LET g == basiselements[e].c[k].q
                  IN  IF i <= Rows(g) /\ j <= Cols(g)
                      THEN RMul(weights[e], g[i][j]) ELSE RZero])]] :
       z \in {fold_zeros(basiselements, k)}})

\* variant: Ty is added to the x entries and Tx to the y entries
applytransform_swapped(txc, tyc, xys) ==
  [r \in 1..Len(xys) |->
     LET p == (r + 1) \div 2
         x == xys[2 * p - 1]
         y == xys[2 * p]
     IN  IF r % 2 = 1 THEN RAdd(x, polyval2d(x, y, tyc))
                      ELSE RAdd(y, polyval2d(x, y, txc))] \o <<>>

\* applytransform(xys) under coefficients tx, ty
applytransform(txc, tyc, xys) ==
  [r \in 1..Len(xys) |->
     LET p == (r + 1) \div 2
         x == xys[2 * p - 1]
         y == xys[2 * p]
     IN  IF r % 2 = 1 THEN RAdd(x, polyval2d(x, y, txc))
                      ELSE RAdd(y, polyval2d(x, y, tyc))] \o <<>>

(***************************************************************************)
(* Inputs                                                                  *)
(***************************************************************************)
\* largest number of points of a point set
MaxPoints == 4

\* in a fit, only the last MaxMoved points are displaced independently
MaxMoved == 2

\* largest degree n of a direct get_zernike / get_orthophi / extendbasis call
MaxN == 3

\* direct get_zernike / get_orthophi / extendbasis calls in one behaviour
MaxBasisCalls == 1

\* columns of degree 1 and 2 are rational; a matrix that reaches degree 3
\* with no more columns than rows would need the sqrt part
RationalDegree == 2

RHalf == <<1, 2>>

\* points of the unit disk, interleaved prefixes of which are the point sets
Pool == << <<RHalf, RHalf>>, <<RNeg(RHalf), RHalf>>, <<RZero, RNeg(RHalf)>>,
           <<RZero, RZero>>, <<ROne, RZero>> >>

Disp == << <<RZero, RZero>>, <<RHalf, RZero>>, <<RNeg(RHalf), RNeg(RHalf)>> >>

MaxErrs == {RZero, <<1, 4>>}

\* draws of numpy.random.uniform(-coefsrange, coefsrange), coefsrange = .01
RandomWeights == {<<-1, 100>>, <<1, 100>>}

\* the values of coefsrange tried, and the draws within each: a list as long
\* as the largest basis, every entry -coefsrange or coefsrange
CoefsRanges == {RZero, <<1, 100>>}

Draws(coefsrange, n) ==
  {[i \in 1..n |-> d[i]] \o <<>> : d \in [1..n -> {RNeg(coefsrange), coefsrange}]}

\* the draw that gives w to the odd places and -w to the others
Alternating(w, n) == [i \in 1..n |-> IF i % 2 = 1 THEN w ELSE RNeg(w)] \o <<>>

PointCounts == 1..Min(MaxPoints, Len(Pool))

Interleave(pts) == [r \in 1..(2 * Len(pts)) |-> pts[(r + 1) \div 2][2 - (r % 2)]] \o <<>>

PointSet(N) == Interleave(SubSeq(Pool, 1, N))

\* displacement patterns: a common translation, or the first points fixed
Patterns(N) ==
  {r \in [1..N -> 1..Len(Disp)] :
     \/ \A k \in 1..N : r[k] = r[1]
     \/ \A k \in 1..N : k <= N - MaxMoved => r[k] = 1}

Displaced(N, r) ==
  Interleave([k \in 1..N |-> <<RAdd(Pool[k][1], Disp[r[k]][1]),
                               RAdd(Pool[k][2], Disp[r[k]][2])>>])

\* the fits tried: every point count, and the empty point set
FitInputs ==
  UNION {{[fromxys |-> PointSet(N), toxys |-> Displaced(N, r), maxerr |-> e] :
            r \in Patterns(N), e \in MaxErrs} : N \in {0} \cup PointCounts}

\* point sets of different cardinalities
MismatchedCounts == 0..2

MismatchInputs ==
  {[fromxys |-> PointSet(c[1]), toxys |-> PointSet(c[2]), maxerr |-> RZero] :
     c \in {c \in MismatchedCounts \X MismatchedCounts : c[1] # c[2]}}

\* The outcome of the iteration that raises the degree to d.  Columns of
\* degree 1 and 2 are rational and the solve is carried out.  With more
\* columns than rows the Gram matrix has rank below its size and is
\* singular; only such matrices occur above RationalDegree for the point
\* counts of the model (12 columns at degree 3, at most 10 rows).  The
\* entries of those columns are irrational: eval_matrix and square_matrix
\* are carried through RationalDegree and are <<>>, not represented, above.
iteration(fromxys, toxys, basiselements, d, square) ==
  IF d > RationalDegree /\ Len(basiselements) > Len(fromxys)
  THEN [singular |-> TRUE, eval_matrix |-> <<>>, square_matrix |-> <<>>]
  ELSE solve_degree(fromxys, toxys, basiselements, square)

(***************************************************************************)
(* State                                                                   *)
(***************************************************************************)
None == <<>>

VARIABLES
  tx,           \* self.tx_xypolycoefs
  ty,           \* self.ty_xypolycoefs
  cache,        \* warpcoefs.zernike_xypolycoefs
  basis_calls,  \* how many direct basis calls were made (bounded)
  pc,           \* "idle", or "ct_loop" while computetransform is in its loop
  op,           \* the operation called last
  args,         \* its arguments, a record with one field per parameter
  ret,          \* its outcome: kind "return" with the value returned under
                \* a field of its own per operation, or kind "raise" with
                \* the exception under exc; kind "none" while there is none
  ct,           \* the locals of the last computetransform call
  self,         \* the warpcoefs instance the last call was made on (0: none)
  others        \* tx_xypolycoefs, ty_xypolycoefs of the instances other than 1

vars == <<tx, ty, cache, basis_calls, pc, op, args, ret, ct, self, others>>

\* The warpcoefs instances.  tx and ty are the coefficients of instance 1,
\* others those of the instances from 2 on.
MaxInstances == 2

Instances == 1..MaxInstances

\* self.tx_xypolycoefs, self.ty_xypolycoefs as instance i reads them
tx_seen(i) == IF i = 1 THEN tx ELSE others[i].tx

ty_seen(i) == IF i = 1 THEN ty ELSE others[i].ty

\* variant: the assignment binds the attribute of the class, which every
\* instance reads
bound_on_class(slf, i) == TRUE

\* `self.tx_xypolycoefs = ...` (lines 231-232, 256-257) binds the attribute
\* in the dict of the instance slf; instance i reads the new array iff it
\* is slf.  The += of lines 235-236 and 260-261 work on that new array.
bound_on(slf, i) == i = slf

\* lines 231-236, 256-261 as seen from every instance
assign_coefs(slf, newtx, newty) ==
  /\ tx' = IF bound_on(slf, 1) THEN newtx ELSE tx
  /\ ty' = IF bound_on(slf, 1) THEN newty ELSE ty
  /\ others' = [i \in Instances \ {1} |->
                  IF bound_on(slf, i) THEN [tx |-> newtx, ty |-> newty] ELSE others[i]]

\* self.zernike_xypolycoefs as instance i reads it: no method assigns the
\* attribute on an instance, so the lookup ends at the class attribute
cache_seen(i) == cache

ct_none ==
  [status |-> "none", fromxys |-> <<>>, toxys |-> <<>>, maxerr |-> None,
   err |-> None, avgerr |-> None, degree |-> 0, basiselements |-> <<>>,
   weights |-> None, dewarpedxys |-> None, last |-> "none", odd |-> FALSE,
   eval_matrix |-> <<>>, square_matrix |-> <<>>]

Init ==
  /\ tx = tx_default
  /\ ty = ty_default
  /\ cache = zernike_base
  /\ basis_calls = 0
  /\ pc = "idle"
  /\ op = "none"
  /\ args = [kind |-> "none"]
  /\ ret = [kind |-> "none"]
  /\ ct = ct_none
  /\ self = 0
  /\ others = [i \in Instances \ {1} |-> [tx |-> tx_default, ty |-> ty_default]]

(***************************************************************************)
(* computetransform(fromxys, toxys, maxerr)                                *)
(***************************************************************************)
\* variant: the shorter operand decides the length of the difference
array_sub_truncating(a, b) ==
  [error |-> "none",
   val |-> [i \in 1..Min(Len(a), Len(b)) |-> RSub(a[i], b[i])] \o <<>>]

\* a - b for two one-dimensional arrays (line 191): entry by entry, an
\* operand of length 1 being stretched to the other's length; operands of
\* different lengths, neither of them 1, raise ValueError
array_sub(a, b) ==
  IF Len(a) = Len(b) THEN [error |-> "none", val |-> VecSub(a, b)]
  ELSE IF Len(a) = 1
  THEN [error |-> "none", val |-> [i \in 1..Len(b) |-> RSub(a[1], b[i])] \o <<>>]
  ELSE IF Len(b) = 1
  THEN [error |-> "none", val |-> [i \in 1..Len(a) |-> RSub(a[i], b[1])] \o <<>>]
  ELSE [error |-> "ValueError", val |-> <<>>]

\* lines 188-194; an exception of line 191 ends the call
computetransform_begin(slf, in) ==
  /\ pc = "idle"
  /\ op' = "computetransform"
  /\ args' = in
  /\ LET errxys == array_sub(in.toxys, in.fromxys)
     IN  IF errxys.error = "none"
         THEN /\ pc' = "ct_loop"
              /\ ret' = [kind |-> "none"]
              /\ ct' = [ct_none EXCEPT !.status = "running", !.fromxys = in.fromxys,
                                       !.toxys = in.toxys, !.maxerr = in.maxerr]
         ELSE /\ pc' = "idle"
              /\ ret' = [kind |-> "raise", exc |-> errxys.error]
              /\ ct' = [ct_none EXCEPT !.status = "raised", !.fromxys = in.fromxys,
                                       !.toxys = in.toxys, !.maxerr = in.maxerr]
  /\ self' = slf
  /\ UNCHANGED <<tx, ty, others, cache, basis_calls>>

\* variant: the loop tests the average error
loop_condition_avg(c) == IF c.err = None THEN TRUE ELSE RLt(c.maxerr, c.avgerr)

\* line 195: err is None or err > maxerr
loop_condition(c) == IF c.err = None THEN TRUE ELSE RLt(c.maxerr, c.err)

\* lines 196-198: extendbasis(degree) and the extended list; from DegreeCap
\* on the model adds nothing more
extension(c, cch) ==
  IF c.degree < DegreeCap
  THEN The({[out |-> c.basiselements \o tagged(r.out, c.degree + 1), cache |-> r.cache] :
            r \in {extendbasis(cch, c.degree + 1)}})
  ELSE [out |-> c.basiselements, cache |-> cch]

\* variant: a singular step is handled like an unstable one
step_singular_stops(c, basiselements, s, build) ==
  LET degree == IF c.degree < DegreeCap THEN c.degree + 1 ELSE c.degree
      grown == [c EXCEPT !.degree = degree, !.basiselements = basiselements,
                         !.odd = ~c.odd, !.eval_matrix = s.eval_matrix,
                         !.square_matrix = s.square_matrix]
  IN  IF s.singular
      THEN [grown EXCEPT !.last = "singular", !.err = RInt(-1), !.avgerr = RInt(-1)]
      ELSE IF (IF c.avgerr = None THEN FALSE ELSE RLt(c.avgerr, s.newavgerr))
      THEN [grown EXCEPT !.last = "unstable", !.err = RInt(-1), !.avgerr = RInt(-1),
                         !.dewarpedxys = s.dewarpedxys,
                         !.basiselements =
                            remove_all(basiselements,
                                       SubSeq(basiselements, Len(c.basiselements) + 1,
                                              Len(basiselements)), build)]
      ELSE [grown EXCEPT !.last = "accepted", !.weights = s.newweights,
                         !.err = s.newerr, !.avgerr = s.newavgerr,
                         !.dewarpedxys = s.dewarpedxys]

\* variant: a solved step with no average error to compare with counts as
\* unstable
step_unstable_first(c, basiselements, s, build) ==
  LET degree == IF c.degree < DegreeCap THEN c.degree + 1 ELSE c.degree
      grown == [c EXCEPT !.degree = degree, !.basiselements = basiselements,
                         !.odd = ~c.odd, !.eval_matrix = s.eval_matrix,
                         !.square_matrix = s.square_matrix]
  IN  IF s.singular
      THEN [grown EXCEPT !.last = "singular"]
      ELSE IF (IF c.avgerr = None THEN TRUE ELSE RLt(c.avgerr, s.newavgerr))
      THEN [grown EXCEPT !.last = "unstable", !.err = RInt(-1), !.avgerr = RInt(-1),
                         !.dewarpedxys = s.dewarpedxys,
                         !.basiselements =
                            remove_all(basiselements,
                                       SubSeq(basiselements, Len(c.basiselements) + 1,
                                              Len(basiselements)), build)]
      ELSE [grown EXCEPT !.last = "accepted", !.weights = s.newweights,
                         !.err = s.newerr, !.avgerr = s.newavgerr,
                         !.dewarpedxys = s.dewarpedxys]

\* lines 211-230: the locals after the iteration that extended the list to
\* basiselements and solved to s
step(c, basiselements, s, build) ==
  LET degree == IF c.degree < DegreeCap THEN c.degree + 1 ELSE c.degree
      grown == [c EXCEPT !.degree = degree, !.basiselements = basiselements,
                         !.odd = ~c.odd, !.eval_matrix = s.eval_matrix,
                         !.square_matrix = s.square_matrix]
  IN  IF s.singular
      THEN [grown EXCEPT !.last = "singular"]
      ELSE IF (IF c.avgerr = None THEN FALSE ELSE RLt(c.avgerr, s.newavgerr))
      THEN [grown EXCEPT !.last = "unstable", !.err = RInt(-1), !.avgerr = RInt(-1),
                         !.dewarpedxys = s.dewarpedxys,
                         !.basiselements =
                            remove_all(basiselements,
                                       SubSeq(basiselements, Len(c.basiselements) + 1,
                                              Len(basiselements)), build)]
      ELSE [grown EXCEPT !.last = "accepted", !.weights = s.newweights,
                         !.err = s.newerr, !.avgerr = s.newavgerr,
                         !.dewarpedxys = s.dewarpedxys]

\* one iteration, lines 196-230
computetransform_iterate ==
  /\ pc = "ct_loop"
  /\ loop_condition(ct)
  /\ \E e \in {extension(ct, cache)} :
        \E s \in {iteration(ct.fromxys, ct.toxys, e.out, ct.degree + 1,
                                ct.square_matrix)} :
           \E build \in NumpyBuilds :
              /\ ct' = step(ct, e.out, s, build)
              /\ cache' = e.cache
  /\ UNCHANGED <<tx, ty, others, basis_calls, pc, op, args, ret, self>>

\* line 195: the while condition is false, control leaves the loop
computetransform_exit ==
  /\ pc = "ct_loop"
  /\ ~loop_condition(ct)
  /\ pc' = "ct_fold"
  /\ UNCHANGED <<tx, ty, others, cache, basis_calls, op, args, ret, ct, self>>

\* lines 231-237: the loop has exited
computetransform_fold ==
  /\ pc = "ct_fold"
  /\ LET n    == Len(ct.basiselements)
         upto == Min(n, Len(ct.weights))
     IN  /\ assign_coefs(self, fold_poly(ct.basiselements, ct.weights, 1, upto),
                          fold_poly(ct.basiselements, ct.weights, 2, upto))
         /\ IF upto < n
            THEN /\ ret' = [kind |-> "raise", exc |-> "IndexError"]
                 /\ ct' = [ct EXCEPT !.status = "raised"]
            ELSE /\ ret' = [kind |-> "return", val |-> ct.avgerr]
                 /\ ct' = [ct EXCEPT !.status = "returned"]
  /\ pc' = "idle"
  /\ UNCHANGED <<cache, basis_calls, op, args, self>>

(***************************************************************************)
(* The other operations of warpcoefs                                       *)
(***************************************************************************)
NM == {<<n, m>> \in (0..MaxN) \X ((-MaxN)..MaxN) : Abs(m) <= n /\ (n - m) % 2 = 0}

\* variant: the sums are written into the caller's sequence
call_applytransform_inplace(slf, xys) ==
  /\ pc = "idle"
  /\ op' = "applytransform"
  /\ args' = [xys |-> xys]
  /\ ret' = [kind |-> "return",
             out |-> applytransform(tx_seen(slf), ty_seen(slf), xys),
             xys |-> applytransform(tx_seen(slf), ty_seen(slf), xys)]
  /\ self' = slf
  /\ UNCHANGED <<tx, ty, others, cache, basis_calls, pc, ct>>

\* applytransform(xys), lines 278-281
call_applytransform(slf, xys) ==
  /\ pc = "idle"
  /\ op' = "applytransform"
  /\ args' = [xys |-> xys]
  /\ ret' = [kind |-> "return",
             out |-> applytransform(tx_seen(slf), ty_seen(slf), xys),
             xys |-> xys]     \* xys: the caller's sequence after the call
  /\ self' = slf
  /\ UNCHANGED <<tx, ty, others, cache, basis_calls, pc, ct>>

\* the argument pairs outside the index set that are tried: n < 0, or n
\* and m of different parity, or |m| > n
InvalidN == 2

InvalidNM ==
  {<<n, m>> \in ((-1)..InvalidN) \X ((-InvalidN - 1)..(InvalidN + 1)) :
     /\ Abs(m) <= n + 1
     /\ (n < 0 \/ Abs(m) > n \/ (n - m) % 2 # 0)}

\* The direct calls of the basis methods, on instance slf.  The number of
\* such calls in a run is counted where the calls are offered.
call_get_zernike(slf, n, m) ==
  /\ pc = "idle"
  /\ op' = "get_zernike_xypolycoefs"
  /\ args' = [n |-> n, m |-> m]
  /\ self' = slf
  /\ LET r == get_zernike(cache_seen(slf), n, m)
     IN  /\ ret' = IF r.error = "none" THEN [kind |-> "return", grid |-> r.out]
                   ELSE [kind |-> "raise", exc |-> r.error]
         /\ cache' = r.cache
  /\ UNCHANGED <<tx, ty, others, pc, ct>>

call_get_orthophi(slf, n, m) ==
  /\ pc = "idle"
  /\ op' = "get_orthophi_xypolycoefs"
  /\ args' = [n |-> n, m |-> m]
  /\ self' = slf
  /\ LET r == get_orthophi(cache_seen(slf), n, m)
     IN  /\ ret' = [kind |-> "return", phi |-> [q |-> r.q, s |-> r.s]]
         /\ cache' = r.cache
  /\ UNCHANGED <<tx, ty, others, pc, ct>>

call_extendbasis(slf, degree) ==
  /\ pc = "idle"
  /\ op' = "extendbasis"
  /\ args' = [degree |-> degree]
  /\ self' = slf
  /\ LET r == extendbasis(cache_seen(slf), degree)
     IN  /\ ret' = [kind |-> "return", elements |-> r.out]
         /\ cache' = r.cache
  /\ UNCHANGED <<tx, ty, others, pc, ct>>

\* the grids polypder2d is called on directly
PolyGrids ==
  {zernike_base[k] : k \in DOMAIN zernike_base} \cup
  {IntGrid(<< <<1, 2, 3>> >>), IntGrid(<< <<1>>, <<2>> >>),
   IntGrid(<< <<1, 2, 3>>, <<4, 5, 6>> >>),
   IntGrid(<< <<1, 2, 3>>, <<4, 5, 6>>, <<7, 8, 9>> >>)}

\* polypder2d(poly, wrtX_otherwise_wrtY) called directly; poly in the
\* outcome is the caller's array after the call
call_polypder2d(poly, wrtX_otherwise_wrtY) ==
  /\ pc = "idle"
  /\ op' = "polypder2d"
  /\ args' = [poly |-> poly, wrtX |-> wrtX_otherwise_wrtY]
  /\ self' = 0
  /\ ret' = [kind |-> "return", der |-> polypder2d(poly, wrtX_otherwise_wrtY),
             poly |-> poly]
  /\ UNCHANGED <<tx, ty, others, cache, basis_calls, pc, ct>>

\* variant: each degree's elements replace the list instead of extending it
cumulative_basis_top(cch, degree) ==
  IF degree = 0 THEN [out |-> <<>>, cache |-> cch]
  ELSE The({[out |-> tagged(r.out, degree), cache |-> r.cache] :
            r \in {extendbasis(cch, degree)}})

\* lines 250-254: basiselements after the loop over n = 1..degree
RECURSIVE cumulative_basis(_, _)
cumulative_basis(cch, degree) ==
  IF degree = 0 THEN [out |-> <<>>, cache |-> cch]
  ELSE The({The({[out |-> prev.out \o tagged(r.out, degree), cache |-> r.cache] :
                 r \in {extendbasis(prev.cache, degree)}}) :
            prev \in {cumulative_basis(cch, degree - 1)}})

\* randomizetransform(degree, coefsrange), lines 250-261: extendbasis for
\* n = 1..degree, one drawn weight per element, then the same fold as
\* computetransform.  draw lists the values numpy.random.uniform hands out,
\* in the order it is asked for them; ct keeps the locals basiselements
\* and weights of the call.
call_randomizetransform(slf, degree, coefsrange, draw) ==
  /\ pc = "idle"
  /\ \A i \in 1..Len(draw) : RLe(RNeg(coefsrange), draw[i]) /\ RLe(draw[i], coefsrange)
  /\ op' = "randomizetransform"
  /\ args' = [degree |-> degree, coefsrange |-> coefsrange]
  /\ \E b \in {cumulative_basis(cache, degree)} :
        LET weights == SubSeq(draw, 1, Len(b.out))
        IN  /\ Len(b.out) <= Len(draw)
            /\ assign_coefs(slf, fold_poly(b.out, weights, 1, Len(b.out)),
                             fold_poly(b.out, weights, 2, Len(b.out)))
            /\ cache' = b.cache
            /\ ct' = [ct_none EXCEPT !.status = "randomized", !.degree = degree,
                                     !.basiselements = b.out, !.weights = weights]
  /\ ret' = [kind |-> "return", val |-> None]
  /\ self' = slf
  /\ UNCHANGED <<basis_calls, pc>>

(***************************************************************************)
(* imgutils.centroids_hullbijected(data, expectedxys)                      *)
(***************************************************************************)
\* The image data is given by the centroid coordinates it shows.  The calls
\* tried: the expected points shifted, one point fewer than expected, and
\* four points in convex position against a triangle around a fourth point.
HullInputs ==
  {[data |-> Displaced(4, [k \in 1..4 |-> 2]), expectedxys |-> PointSet(4)],
   [data |-> PointSet(3), expectedxys |-> PointSet(4)],
   [data |-> Interleave(<<Pool[1], Pool[2], Pool[3], Pool[5]>>),
    expectedxys |-> PointSet(4)]}

\* The convex hull of the points left in a working set, after the
\* description of hull peeling (opticsmath has no untrueconvexhull).
Points(xys) == {<<xys[2 * k - 1], xys[2 * k]>> : k \in 1..(Len(xys) \div 2)}

\* sign of the cross product (b - a) x (c - a)
Orient(a, b, c) ==
  LET v == RSub(RMul(RSub(b[1], a[1]), RSub(c[2], a[2])),
                RMul(RSub(b[2], a[2]), RSub(c[1], a[1])))
  IN  IF v[1] > 0 THEN 1 ELSE IF v[1] < 0 THEN -1 ELSE 0

OnSegment(p, a, b) ==
  /\ Orient(a, b, p) = 0
  /\ RLe(RAdd(RMul(RSub(a[1], p[1]), RSub(b[1], p[1])),
              RMul(RSub(a[2], p[2]), RSub(b[2], p[2]))), RZero)

InHull(p, S) ==
  \E a \in S, b \in S, c \in S :
     \/ OnSegment(p, a, b)
     \/ /\ Orient(a, b, c) # 0
        /\ Orient(a, b, p) * Orient(a, b, c) >= 0
        /\ Orient(b, c, p) * Orient(a, b, c) >= 0
        /\ Orient(c, a, p) * Orient(a, b, c) >= 0

hull_vertices(S) == {p \in S : ~InHull(p, S \ {p})}

\* the vertex counts of the successive hulls peeled off a point set
RECURSIVE layer_counts(_)
layer_counts(S) ==
  IF S = {} THEN <<>>
  ELSE <<Cardinality(hull_vertices(S))>> \o layer_counts(S \ hull_vertices(S))

\* line 73 evaluates centroids(filename); no name filename is bound in the
\* function or in the module, so the call ends there with NameError
centroids_hullbijected(data, expectedxys) ==
  /\ pc = "idle"
  /\ op' = "centroids_hullbijected"
  /\ args' = [data |-> data, expectedxys |-> expectedxys]
  /\ ret' = [kind |-> "raise", exc |-> "NameError"]
  /\ self' = 0
  /\ UNCHANGED <<tx, ty, others, cache, basis_calls, pc, ct>>

(***************************************************************************)
(* warpcoefs(fromxys, toxys, maxerr) and dewarp.detectwarp                 *)
(***************************************************************************)
\* the constructor calls tried: a fit input, no argument, a missing maxerr
InitInputs ==
  FitInputs \cup
  {[fromxys |-> None, toxys |-> None, maxerr |-> None],
   [fromxys |-> PointSet(1), toxys |-> PointSet(1), maxerr |-> None]}

\* __init__, lines 20-22: with all three arguments given line 22 looks up
\* self.computeweights, a name neither the class nor the instance has
warpcoefs_init(slf, in) ==
  /\ pc = "idle"
  /\ op' = "warpcoefs"
  /\ args' = in
  /\ self' = slf
  /\ ret' = IF in.fromxys # None /\ in.toxys # None /\ in.maxerr # None
            THEN [kind |-> "raise", exc |-> "AttributeError"]
            ELSE [kind |-> "return", val |-> None]
  /\ UNCHANGED <<tx, ty, others, cache, basis_calls, pc, ct>>

\* number of parameters of imgutils.centroids
centroids_arity == 1

\* largest number of coordinates in a detectwarp run
MaxCoords == 6

\* detectwarp runs by what the file reads give: ideal = len(ideal_xys),
\* mask = whether a mask is in use at line 93, masked and unmasked = the
\* number of coordinates in the image with it and without it
DetectInputs ==
  {[ideal |-> 2 * i, mask |-> b, masked |-> 2 * m, unmasked |-> 2 * u] :
     i \in 1..(MaxCoords \div 2), b \in BOOLEAN,
     m \in 0..(MaxCoords \div 2), u \in 0..(MaxCoords \div 2)}

\* The exception detectwarp ends with.  Line 97 calls imgutils.centroids
\* with two arguments.  Past it, lines 99-107: the raise of line 107 stands
\* under the test of line 99, after the retry block, and the name raised
\* at lines 104 and 107 is bound nowhere; lines 109-110 look up
\* opticsmath.center_xys, which the module does not have.
detectwarp_exception(in) ==
  IF centroids_arity # 2 THEN "TypeError"
  ELSE IF in.masked # in.ideal /\ in.mask /\ in.unmasked # in.ideal THEN "NameError"
  ELSE IF in.masked # in.ideal THEN "NameError"
  ELSE "AttributeError"

detectwarp(in) ==
  /\ pc = "idle"
  /\ op' = "detectwarp"
  /\ args' = in
  /\ self' = 0
  /\ ret' = [kind |-> "raise", exc |-> detectwarp_exception(in)]
  /\ UNCHANGED <<tx, ty, others, cache, basis_calls, pc, ct>>

\* the direct basis calls of a run are counted and bounded
counted_call == basis_calls < MaxBasisCalls /\ basis_calls' = basis_calls + 1

Next ==
  \/ \E in \in FitInputs : computetransform_begin(1, in)
  \/ computetransform_iterate
  \/ computetransform_exit
  \/ computetransform_fold
  \/ \E N \in PointCounts : call_applytransform(1, PointSet(N))
  \/ \E degree \in 1..RationalDegree, w \in RandomWeights :
        call_randomizetransform(1, degree, RAbs(w),
                                Alternating(w, RationalDegree * (RationalDegree + 1)))
  \/ \E nm \in NM : counted_call /\ call_get_zernike(1, nm[1], nm[2])
  \/ \E nm \in NM : counted_call /\ call_get_orthophi(1, nm[1], nm[2])
  \/ \E d \in 0..MaxN : counted_call /\ call_extendbasis(1, d)
  \/ \E in \in HullInputs : centroids_hullbijected(in.data, in.expectedxys)

Spec == Init /\ [][Next]_vars

\* The basis methods and polypder2d called directly, any number of times:
\* the methods on either instance, get_zernike_xypolycoefs also on pairs
\* outside the index set.
BasisNext ==
  \/ \E slf \in Instances, nm \in NM \cup InvalidNM :
        call_get_zernike(slf, nm[1], nm[2]) /\ UNCHANGED basis_calls
  \/ \E slf \in Instances, nm \in NM :
        call_get_orthophi(slf, nm[1], nm[2]) /\ UNCHANGED basis_calls
  \/ \E slf \in Instances, d \in 0..MaxN :
        call_extendbasis(slf, d) /\ UNCHANGED basis_calls
  \/ \E poly \in PolyGrids, wrtX \in BOOLEAN : call_polypder2d(poly, wrtX)

BasisSpec == Init /\ [][BasisNext]_vars

\* the interpreter runs a started loop on: an iteration whose condition
\* holds is taken, and a false condition leaves the loop
\* randomizetransform with every draw of the model, and computetransform
\* on point sets of different cardinalities
RandomNext ==
  \/ \E degree \in 1..RationalDegree, coefsrange \in CoefsRanges :
        \E draw \in Draws(coefsrange, RationalDegree * (RationalDegree + 1)) :
           call_randomizetransform(1, degree, coefsrange, draw)
  \/ \E in \in MismatchInputs : computetransform_begin(1, in)

RandomSpec == Init /\ [][RandomNext]_vars

\* the constructor and detectwarp
DriverNext ==
  \/ \E slf \in Instances, in \in InitInputs : warpcoefs_init(slf, in)
  \/ \E in \in DetectInputs : detectwarp(in)

DriverSpec == Init /\ [][DriverNext]_vars

\* Calls on every instance: fits of InstancePoints points, random
\* coefficients and applytransform.
InstancePoints == 3

InstanceInputs ==
  {in \in FitInputs : Len(in.fromxys) = 2 * InstancePoints /\ in.maxerr = <<1, 4>>}

InstanceNext ==
  \/ \E slf \in Instances, in \in InstanceInputs : computetransform_begin(slf, in)
  \/ computetransform_iterate
  \/ computetransform_exit
  \/ computetransform_fold
  \/ \E slf \in Instances, degree \in 1..RationalDegree, w \in RandomWeights :
        call_randomizetransform(slf, degree, RAbs(w),
                                Alternating(w, RationalDegree * (RationalDegree + 1)))
  \/ \E slf \in Instances : call_applytransform(slf, PointSet(InstancePoints))

InstanceSpec == Init /\ [][InstanceNext]_vars

FairSpec == Spec /\ WF_vars(computetransform_iterate) /\ WF_vars(computetransform_exit)

(***************************************************************************)
(* Properties                                                              *)
(***************************************************************************)
Returned(name) == pc = "idle" /\ op = name /\ ret.kind = "return"

Raised(name) == pc = "idle" /\ op = name /\ ret.kind = "raise"

MaxAbsDiff(a, b) == RMaxSeq([i \in 1..Len(a) |-> RAbs(RSub(a[i], b[i]))])

\* the value of a coefficient grid at (x, y), row after row
RECURSIVE RowValue(_, _, _)
RowValue(row, y, j) ==
  IF j > Len(row) THEN RZero
  ELSE RAdd(RMul(row[j], RPow(y, j - 1)), RowValue(row, y, j + 1))

RECURSIVE GridValue(_, _, _, _)
GridValue(c, x, y, i) ==
  IF i > Len(c) THEN RZero
  ELSE RAdd(RMul(RPow(x, i - 1), RowValue(c[i], y, 1)), GridValue(c, x, y, i + 1))

\* C1: whenever computetransform returns a value other than -1, the
\* corrected points of the last accepted step are within maxerr of toxys
\* in every coordinate, and the returned average error r has 0 <= r <= maxerr.
C1_ReturnWithinMaxerr ==
  (Returned("computetransform") /\ ret.val # RInt(-1)) =>
     /\ ct.last = "accepted"
     /\ RLe(MaxAbsDiff(ct.dewarpedxys, ct.toxys), ct.maxerr)
     /\ RLe(RZero, ret.val)
     /\ RLe(ret.val, ct.maxerr)

C1_Witness ==
  /\ Returned("computetransform")
  /\ ret.val # RInt(-1)
  /\ RLt(RZero, ret.val)
  /\ ct.degree = 2

\* C2: when a solved step's average error exceeds that of the previous
\* accepted step, the elements added in that step are discarded, Tx and Ty
\* are folded from the previous accepted weights over the retained
\* elements, and the value returned is exactly -1.
C2_InstabilityFallsBack ==
  (ct.last = "unstable") =>
     /\ \A i \in 1..Len(ct.basiselements) : ct.basiselements[i].id[1] < ct.degree
     /\ Len(ct.basiselements) = Len(ct.weights)
     /\ (pc = "idle" /\ op = "computetransform") =>
           /\ ret = [kind |-> "return", val |-> RInt(-1)]
           /\ tx = fold_poly(ct.basiselements, ct.weights, 1, Len(ct.weights))
           /\ ty = fold_poly(ct.basiselements, ct.weights, 2, Len(ct.weights))

\* C3: for every well-formed input the degree-escalation loop eventually
\* exits: a computetransform that is in its loop leaves it.
C3_LoopExits == (pc = "ct_loop") ~> (pc # "ct_loop")

\* C4: for every well-formed input computetransform never ends in an
\* exception: it returns with an error value.
C4_NeverRaises ==
  (pc = "idle" /\ op = "computetransform") => ret.kind = "return"

\* C5: an iteration whose Gram matrix is singular raises nothing, leaves
\* the accepted weights, maximum error and average error as they were, and
\* the loop goes on to the next degree.
C5_SingularSkips ==
  [][(pc = "ct_loop" /\ ct' # ct /\ ct'.last = "singular") =>
       /\ ct'.weights = ct.weights
       /\ ct'.err = ct.err
       /\ ct'.avgerr = ct.avgerr
       /\ pc' = "ct_loop"
       /\ loop_condition(ct')
       /\ ret'.kind = "none"
       /\ (ct.degree < DegreeCap => ct'.degree = ct.degree + 1)]_vars

C5_Witness ==
  /\ pc = "ct_loop"
  /\ ct.last = "singular"
  /\ ct.weights # None
  /\ ct.degree = 2

\* C6: after computetransform returned a value other than -1,
\* applytransform(fromxys) is fromxys plus design matrix times accepted
\* weights, and so within maxerr of toxys in every coordinate.
C6_RoundTrip ==
  (/\ Returned("applytransform")
   /\ ct.status = "returned"
   /\ ct.avgerr # RInt(-1)
   /\ args.xys = ct.fromxys) =>
     /\ ret.out = ct.dewarpedxys
     /\ ret.out = VecAdd(ct.fromxys,
                         MatVec(eval_matrix(ct.fromxys, ct.basiselements), ct.weights))
     /\ \A i \in 1..Len(ret.out) :
           RLe(RAbs(RSub(ret.out[i], ct.toxys[i])), ct.maxerr)

C6_Witness ==
  /\ Returned("applytransform")
  /\ ct.status = "returned"
  /\ ct.avgerr # RInt(-1)
  /\ args.xys = ct.fromxys
  /\ ct.degree = 2
  /\ ret.out # args.xys
  /\ RLt(RZero, ct.avgerr)

\* C7: fitting a non-empty point set to itself exits after the first
\* iteration (degree 1, never singular), returns 0, leaves Tx and Ty all
\* zero, and applytransform then gives the points back.
C7_Identity ==
  (ct.status # "none" /\ Len(ct.fromxys) > 0 /\ ct.fromxys = ct.toxys) =>
     /\ ct.degree <= 1
     /\ ct.degree = 1 => (ct.last = "accepted" /\ ct.err = RZero)
     /\ ct.status = "raised" => FALSE
     /\ ct.status = "returned" =>
           /\ IsZeroGrid(tx) /\ IsZeroGrid(ty)
           /\ op = "computetransform" => ret = [kind |-> "return", val |-> RZero]
           /\ (op = "applytransform" /\ args.xys = ct.fromxys) => ret.out = args.xys

C7_Witness ==
  /\ Returned("applytransform")
  /\ ct.status = "returned"
  /\ ct.fromxys = ct.toxys
  /\ args.xys = ct.fromxys
  /\ Len(args.xys) = 2 * MaxPoints

\* C8: applytransform(xys) has the length of xys; for every point k its x
\* entry is x_k + Tx(x_k, y_k) and its y entry is y_k + Ty(x_k, y_k), a
\* grid c evaluating to the sum over i, j of c[i][j] * x^i * y^j.
C8_ApplyEvaluates ==
  Returned("applytransform") =>
     /\ Len(ret.out) = Len(args.xys)
     /\ \A k \in 1..(Len(args.xys) \div 2) :
           LET x == args.xys[2 * k - 1]
               y == args.xys[2 * k]
           IN  /\ ret.out[2 * k - 1] = RAdd(x, GridValue(tx, x, y, 1))
               /\ ret.out[2 * k] = RAdd(y, GridValue(ty, x, y, 1))

C8_Witness ==
  /\ Returned("applytransform")
  /\ ct.status = "returned"
  /\ Rows(tx) = 3 /\ Cols(tx) = 3
  /\ ~IsZeroGrid(tx) /\ ~IsZeroGrid(ty)
  /\ Len(args.xys) = 2 * MaxPoints
  /\ ret.out # args.xys

\* C9: applytransform, get_zernike_xypolycoefs, get_orthophi_xypolycoefs
\* and extendbasis leave Tx and Ty unchanged; applytransform also leaves
\* its input and the basis cache unchanged; Tx, Ty change only in the fold
\* that ends computetransform and in randomizetransform; an applytransform
\* call that follows one with the same input returns the same result.
C9_Frame ==
  [][/\ (op' \in {"applytransform", "get_zernike_xypolycoefs",
                  "get_orthophi_xypolycoefs", "extendbasis"}) =>
           (tx' = tx /\ ty' = ty)
     /\ (op' = "applytransform") => (cache' = cache /\ ret'.xys = args'.xys)
     /\ (tx' # tx \/ ty' # ty) =>
           \/ pc = "ct_fold" /\ pc' = "idle" /\ op' = "computetransform"
           \/ pc = "idle" /\ op' = "randomizetransform"
     /\ (Returned("applytransform") /\ op' = "applytransform" /\ args' = args) =>
           ret'.out = ret.out]_vars

C9_Witness ==
  /\ Returned("applytransform")
  /\ tx # tx_default
  /\ DOMAIN cache # DOMAIN zernike_base
  /\ basis_calls > 0

C11_CardinalityCheck ==
  (pc = "idle" /\ op = "centroids_hullbijected") =>
     ((ret = [kind |-> "return", val |-> None])
        <=> (Len(args.data) # Len(args.expectedxys)))

\* C12: with equal cardinalities, if at some peel layer the two hulls have
\* different vertex counts the call returns None and no partial pairing.
C12_HullMismatchGivesNone ==
  (/\ pc = "idle"
   /\ op = "centroids_hullbijected"
   /\ Len(args.data) = Len(args.expectedxys)
   /\ layer_counts(Points(args.data)) # layer_counts(Points(args.expectedxys))) =>
     ret = [kind |-> "return", val |-> None]

\* C13: with equal cardinalities and equal hull vertex counts at every
\* layer the call returns the pairing: every centroid placed once, after
\* as many peel iterations as there are layers, which is at most N.
C13_PeelingReturnsPairing ==
  (/\ pc = "idle"
   /\ op = "centroids_hullbijected"
   /\ Len(args.data) = Len(args.expectedxys)
   /\ layer_counts(Points(args.data)) = layer_counts(Points(args.expectedxys))) =>
     /\ ret.kind = "return"
     /\ Len(ret.pairing) = Len(args.data)
     /\ Points(ret.pairing) = Points(args.data)
     /\ Len(layer_counts(Points(args.data))) <= Len(args.data) \div 2

\* the highest total degree x^i * y^j with a nonzero coefficient, -1 if none
TotalDegree(p) ==
  Max(-1, MaxOver([k \in 1..(Rows(p.q) * Cols(p.q)) |->
                     LET i == (k - 1) \div Cols(p.q)
                         j == (k - 1) % Cols(p.q)
                     IN  IF p.q[i + 1][j + 1] # RZero \/ p.s[i + 1][j + 1] # RZero
                         THEN i + j ELSE -1]))

ZeroPoly == [q |-> Zeros(1, 1), s |-> Zeros(1, 1)]

\* C14: extendbasis(d) returns 2*d elements for d >= 1, each the
\* derivative pair of a polynomial of degree d (so of degree d-1 itself),
\* and a single pair of zero polynomials for d = 0.
C14_ExtendbasisCount ==
  Returned("extendbasis") =>
     /\ args.degree >= 1 =>
           /\ Len(ret.elements) = 2 * args.degree
           /\ \A i \in 1..Len(ret.elements) :
                 Max(TotalDegree(ret.elements[i][1]), TotalDegree(ret.elements[i][2])) = args.degree - 1
     /\ args.degree = 0 => ret.elements = << <<ZeroPoly, ZeroPoly>> >>

C14_Witness ==
  /\ Returned("extendbasis")
  /\ args.degree = MaxN
  /\ Len(ret.elements) = 2 * MaxN

\* The places of the list extendbasis(d) is to return: m from d down in
\* steps of 2; for m > 0 the gradients of the cos and sin potentials and,
\* unless m = d, their curls after them; for m = 0 a gradient and its curl.
RECURSIVE layout(_, _)
layout(d, m) ==
  IF m < 0 THEN <<>>
  ELSE IF m = 0 THEN << [m |-> 0, kind |-> "grad"], [m |-> 0, kind |-> "curl"] >>
  ELSE << [m |-> m, kind |-> "grad"], [m |-> -m, kind |-> "grad"] >> \o
       (IF m # d THEN << [m |-> m, kind |-> "curl"], [m |-> -m, kind |-> "curl"] >>
        ELSE <<>>) \o layout(d, m - 2)

\* C15: the list of extendbasis(d), d >= 1, is laid out by m descending
\* from d, gradients before curls for each m, curls only for m # d; a
\* gradient element is (d/dx, d/dy) of the potential of (d, m), and a curl
\* element (Px, Py) has Px = Gy, Py = -Gx for the gradient of the same m.
C15_CurlPairedWithGradient ==
  (Returned("extendbasis") /\ args.degree >= 1) =>
     LET places == layout(args.degree, args.degree)
     IN  /\ Len(ret.elements) = Len(places)
         /\ \A i \in 1..Len(places) :
               /\ places[i].kind = "grad" =>
                     LET phi == get_orthophi(zernike_base, args.degree, places[i].m)
                     IN  ret.elements[i] = <<PolyDer(phi, TRUE), PolyDer(phi, FALSE)>>
               /\ places[i].kind = "curl" =>
                     /\ Abs(places[i].m) # args.degree
                     /\ \E j \in 1..(i - 1) :
                           /\ places[j] = [m |-> places[i].m, kind |-> "grad"]
                           /\ ret.elements[i][1] = ret.elements[j][2]
                           /\ ret.elements[i][2] = PolyNeg(ret.elements[j][1])

C15_Witness ==
  /\ Returned("extendbasis")
  /\ args.degree = 2
  /\ Len(ret.elements) = 4
  /\ ret.elements[4][1] = ret.elements[3][2]
  /\ ~IsZeroGrid(ret.elements[4][1].q)

\* C16: for every pair (n, m) with n < 0, or n and m of different parity,
\* or |m| > n, get_zernike_xypolycoefs(n, m) returns an all-zero grid and
\* raises nothing.
C16_InvalidPairGivesZero ==
  (/\ pc = "idle"
   /\ op = "get_zernike_xypolycoefs"
   /\ <<args.n, args.m>> \in InvalidNM) =>
     (ret.kind = "return" /\ IsZeroGrid(ret.grid))

\* C17: a step never removes a cache entry or changes its value; every
\* entry is the grid computed from the initial cache for its key; a
\* polynomial get_zernike_xypolycoefs(n, m) computes (n >= |m|) is in the
\* cache under (n, m) when it is returned; and the grid returned is the
\* one computed from the initial cache, whatever the cache held before.
C17_CacheMonotoneTransparent ==
  [][/\ \A k \in DOMAIN cache : k \in DOMAIN cache' /\ cache'[k] = cache[k]
     /\ \A k \in DOMAIN cache' : cache'[k] = get_zernike(zernike_base, k[1], k[2]).out
     /\ (op' = "get_zernike_xypolycoefs" /\ ret'.kind = "return") =>
           /\ args'.n >= Abs(args'.m) =>
                 (<<args'.n, args'.m>> \in DOMAIN cache'
                  /\ cache'[<<args'.n, args'.m>>] = ret'.grid)
           /\ ret'.grid = get_zernike(zernike_base, args'.n, args'.m).out]_vars

C17_Witness ==
  /\ Returned("get_zernike_xypolycoefs")
  /\ args = [n |-> 3, m |-> 1]
  /\ ct.status = "returned"
  /\ ct.degree = 2

\* C18: a basis call on one warpcoefs instance leaves the cache every
\* other instance sees as it was.
C18_CachePerInstance ==
  [][\A i \in Instances :
       (/\ op' \in {"get_zernike_xypolycoefs", "get_orthophi_xypolycoefs", "extendbasis"}
        /\ self' \in Instances \ {i}) =>
          cache_seen(i)' = cache_seen(i)]_vars

\* C19: polypder2d(p, True) has R-1 rows of C entries, entry (i, j) being
\* (i+1) * p[i+1][j]; polypder2d(p, False) has R rows of C-1 entries,
\* entry (i, j) being (j+1) * p[i][j+1] (0-based); p is left as it was.
C19_DerivativeEntries ==
  Returned("polypder2d") =>
     LET p == args.poly
         R == Len(p)
         C == Len(p[1])
     IN  /\ ret.poly = p
         /\ args.wrtX =>
               /\ Len(ret.der) = R - 1
               /\ \A i \in 1..(R - 1) :
                     /\ Len(ret.der[i]) = C
                     /\ \A j \in 1..C : ret.der[i][j] = RMul(RInt(i), p[i + 1][j])
         /\ ~args.wrtX =>
               /\ Len(ret.der) = R
               /\ \A i \in 1..R :
                     /\ Len(ret.der[i]) = C - 1
                     /\ \A j \in 1..(C - 1) : ret.der[i][j] = RMul(RInt(j), p[i][j + 1])

C19_Witness ==
  /\ Returned("polypder2d")
  /\ args.wrtX
  /\ Len(args.poly) = 3
  /\ ret.der[2][1] = RInt(14)

\* C20: on a grid with at least 2 rows and 2 columns the derivative in x
\* of the derivative in y is the derivative in y of the derivative in x.
C20_MixedPartialsCommute ==
  (/\ Returned("polypder2d")
   /\ Len(args.poly) >= 2
   /\ Len(args.poly[1]) >= 2) =>
     polypder2d(ret.der, ~args.wrtX)
        = polypder2d(polypder2d(args.poly, ~args.wrtX), args.wrtX)

C20_Witness ==
  /\ Returned("polypder2d")
  /\ ~args.wrtX
  /\ Len(args.poly) = 3
  /\ Len(args.poly[1]) = 3
  /\ polypder2d(ret.der, TRUE) = IntGrid(<< <<5, 12>>, <<16, 36>> >>)

\* entry (i, j) of a grid, 0 outside its shape
Coef(g, i, j) == IF i <= Rows(g) /\ j <= Cols(g) THEN g[i][j] ELSE RZero

\* C21: randomizetransform(D, r), D >= 1, builds its basis from
\* extendbasis(1), ..., extendbasis(D) in this order, D*(D+1) elements in
\* all, draws one weight in [-r, r] per element, and makes Tx (Ty) the sum
\* of weight times x (y) polynomial over the elements, in a grid of the
\* largest shape; with r = 0 both are all zero.
C21_RandomizeFolds ==
  (Returned("randomizetransform") /\ args.degree >= 1) =>
     LET D   == args.degree
         els == ct.basiselements
         w   == ct.weights
     IN  /\ Len(els) = D * (D + 1)
         /\ \A i \in 1..Len(els) :
               /\ els[i].id[1] \in 1..D
               /\ els[i].c = extendbasis(zernike_base, els[i].id[1]).out[els[i].id[2]]
               /\ i > 1 =>
                     \/ els[i].id = <<els[i - 1].id[1], els[i - 1].id[2] + 1>>
                     \/ /\ els[i].id = <<els[i - 1].id[1] + 1, 1>>
                        /\ els[i - 1].id[2] = 2 * els[i - 1].id[1]
         /\ els[1].id = <<1, 1>>
         /\ Len(w) = Len(els)
         /\ \A i \in 1..Len(w) :
               RLe(RNeg(args.coefsrange), w[i]) /\ RLe(w[i], args.coefsrange)
         /\ \A k \in 1..2 :
               LET t == IF k = 1 THEN tx ELSE ty
               IN  /\ Rows(t) = MaxOver([e \in 1..Len(els) |-> Rows(els[e].c[k].q)])
                   /\ Cols(t) = MaxOver([e \in 1..Len(els) |-> Cols(els[e].c[k].q)])
                   /\ \A i \in 1..Rows(t), j \in 1..Cols(t) :
                         t[i][j] = RSum([e \in 1..Len(els) |->
                                           RMul(w[e], Coef(els[e].c[k].q, i, j))])
         /\ args.coefsrange = RZero => (IsZeroGrid(tx) /\ IsZeroGrid(ty))

C21_Witness ==
  /\ Returned("randomizetransform")
  /\ args = [degree |-> 2, coefsrange |-> <<1, 100>>]
  /\ Len(ct.basiselements) = 6
  /\ ct.weights[1] = <<1, 100>> /\ ct.weights[2] = <<-1, 100>>
  /\ ~IsZeroGrid(tx) /\ ~IsZeroGrid(ty)

\* C22: computetransform on fromxys and toxys of different lengths ends
\* in an exception before a degree is fitted: no basis is built, nothing
\* is solved on a part of the points, and Tx, Ty stay as they were.
C22_MismatchFailsHard ==
  [][(op' = "computetransform" /\ Len(args'.fromxys) # Len(args'.toxys)) =>
       /\ pc' = "idle"
       /\ ret'.kind = "raise"
       /\ ct'.degree = 0 /\ ct'.basiselements = <<>> /\ ct'.weights = None
       /\ tx' = tx /\ ty' = ty /\ cache' = cache]_vars

C22_Witness ==
  /\ Raised("computetransform")
  /\ Len(args.fromxys) = 4 /\ Len(args.toxys) = 2
  /\ ret.exc = "ValueError"
  /\ ~IsZeroGrid(tx) /\ Rows(tx) = 2

\* C23: warpcoefs(fromxys, toxys, maxerr) with all three arguments runs
\* the fit and the object holds the coefficients of
\* computetransform(fromxys, toxys, maxerr); warpcoefs() runs no fit.
C23_ConstructorFits ==
  (pc = "idle" /\ op = "warpcoefs") =>
     IF args.fromxys # None /\ args.toxys # None /\ args.maxerr # None
     THEN /\ ret.kind = "return"
          /\ ct.status = "returned"
          /\ ct.fromxys = args.fromxys /\ ct.toxys = args.toxys
          /\ ct.maxerr = args.maxerr
          /\ tx = fold_poly(ct.basiselements, ct.weights, 1, Len(ct.weights))
          /\ ty = fold_poly(ct.basiselements, ct.weights, 2, Len(ct.weights))
     ELSE ret.kind = "return" /\ ct.status = "none"

\* C25: detectwarp returns coefficients when the masked detection misses
\* the ideal count and the retry without mask meets it; it raises only
\* when the counts differ after the retry, or differ with no mask.
C25_RetryWithoutMask ==
  (pc = "idle" /\ op = "detectwarp") =>
     /\ (args.mask /\ args.masked # args.ideal /\ args.unmasked = args.ideal) =>
           ret.kind = "return"
     /\ ret.kind = "raise" =>
           /\ args.masked # args.ideal
           /\ args.mask => args.unmasked # args.ideal

\* C24: after every iteration of the computetransform loop (through
\* RationalDegree, where the model carries the matrices) the grown
\* square_matrix is the full product of the transposed eval_matrix with
\* eval_matrix over all basis elements added so far, the entries of the
\* iterations before are unchanged, and the matrix is symmetric.
C24_GramIncremental ==
  [][(pc = "ct_loop" /\ ct'.odd # ct.odd /\ ct'.degree <= RationalDegree) =>
       LET G == ct'.square_matrix
           E == ct'.eval_matrix
           n == Len(ct.square_matrix)
       IN  /\ Len(E) = Len(ct'.fromxys)
           /\ Len(G) > n
           /\ \A r \in 1..Len(E) : Len(E[r]) = Len(G)
           /\ ct'.last # "unstable" =>
                 /\ Len(G) = Len(ct'.basiselements)
                 /\ E = eval_matrix(ct'.fromxys, ct'.basiselements)
           /\ G = square_matrix(E, Len(G))
           /\ \A i \in 1..n, j \in 1..n : G[i][j] = ct.square_matrix[i][j]
           /\ \A i \in 1..Len(G), j \in 1..Len(G) : G[i][j] = G[j][i]]_vars

C24_Witness ==
  /\ pc = "ct_loop"
  /\ ct.degree = 2
  /\ Len(ct.square_matrix) = 6
  /\ Len(ct.fromxys) = 8
  /\ ct.square_matrix[1][1] # RZero
  /\ \E i \in 3..6, j \in 1..2 :
        ct.square_matrix[i][j] # RZero /\ ct.square_matrix[i][j] = ct.square_matrix[j][i]

\* C26: whenever computetransform reaches the fold, there are as many
\* retained basis elements as entries of the accepted weights, and element
\* i is the i-th element of the cumulative basis, the column weight i was
\* solved for.
C26_FoldAligned ==
  (pc = "ct_fold") =>
     /\ Len(ct.basiselements) = Len(ct.weights)
     /\ \A i \in 1..Len(ct.basiselements) :
           ct.basiselements[i] = cumulative_basis(cache, ct.degree).out[i]

\* C27: the computetransform loop exits only after a step was accepted: a
\* solved step with no accepted step before it is never taken as unstable,
\* a singular step with no accepted step before it leaves the loop
\* condition true, and the weights are defined when control leaves the loop.
C27_ExitAfterAccept ==
  [][/\ (pc = "ct_loop" /\ ct'.odd # ct.odd /\ ct.weights = None) =>
           /\ ct'.last # "unstable"
           /\ ct'.last = "singular" => (ct'.weights = None /\ loop_condition(ct'))
     /\ (pc = "ct_loop" /\ pc' = "ct_fold") =>
           /\ ct.weights # None
           /\ ct.last \in {"accepted", "unstable"}
           /\ Len(ct.weights) > 0]_vars

C27_Witness ==
  /\ pc = "ct_fold"
  /\ ct.last = "unstable"
  /\ Len(ct.weights) = 2
  /\ ct.degree = 2

\* C28: after any sequence of extendbasis(d), d >= 0, computetransform and
\* randomizetransform calls (and get_zernike_xypolycoefs and
\* get_orthophi_xypolycoefs calls within the index set), every key (n, m)
\* of the basis cache has n >= 0, |m| <= n and n - m even, and its grid has
\* n + 1 rows of n + 1 entries.
C28_CacheKeysValid ==
  \A k \in DOMAIN cache :
     /\ k[1] >= 0
     /\ Abs(k[2]) <= k[1]
     /\ (k[1] - k[2]) % 2 = 0
     /\ Len(cache[k]) = k[1] + 1
     /\ \A r \in 1..Len(cache[k]) : Len(cache[k][r]) = k[1] + 1

C28_Witness ==
  /\ Returned("extendbasis")
  /\ args.degree = 3
  /\ {<<3, 3>>, <<3, 1>>, <<3, -1>>, <<3, -3>>} \subseteq DOMAIN cache
  /\ ct.status = "returned"

\* C29: computetransform assigns Tx and Ty only after its loop has exited
\* and only in a call that completes: every step of a call that has not
\* returned - the steps of the loop, and the step that ends the call in an
\* exception - leaves Tx and Ty as the last completed computetransform or
\* randomizetransform (or the defaults) set them.
C29_NoPartialFold ==
  [][(op' = "computetransform" /\ ret'.kind # "return") =>
       (tx' = tx /\ ty' = ty)]_vars

\* C30: warp coefficients are per instance: no step of a computetransform
\* or randomizetransform call on one warpcoefs instance changes the Tx, Ty
\* that any other instance reads (and applytransform uses there), whether
\* that instance was fitted before or never.
C30_CoefsPerInstance ==
  [][(op' \in {"computetransform", "randomizetransform"}) =>
       \A i \in Instances \ {self'} :
          /\ tx_seen(i)' = tx_seen(i)
          /\ ty_seen(i)' = ty_seen(i)]_vars

C30_Witness ==
  /\ Returned("computetransform")
  /\ self = 1
  /\ tx_seen(1) # tx_default
  /\ tx_seen(2) # tx_default
  /\ tx_seen(2) # tx_seen(1)
  /\ ty_seen(2) # ty_seen(1)

====
